---------------------------- MODULE Spec2Model ----------------------------
(***************************************************************************)
(* A model of pkr's utilities (src/pkr/utils.py): the secret codec and the *)
(* encrypt/decrypt swaps, the deep merge and diff of configuration trees,  *)
(* the schema reconciliation and the template materializer.                *)
(*                                                                         *)
(* Each subsystem has its own variables, initial predicate and next-state  *)
(* relation; a specification of one subsystem pins the variables of the    *)
(* others to their idle values.                                            *)
(***************************************************************************)
EXTENDS Integers, Sequences, FiniteSets, TLC

VARIABLES
  \* --- secret codec (encrypt_with_key / decrypt_with_key) ---
  cSource,    \* the plaintext handed to encrypt_with_key
  cPw,        \* the passphrase
  cCipher,    \* what encrypt_with_key returned
  cResult,    \* what decrypt_with_key returned (or raised)
  cPc,        \* "start" | "encrypted" | "decrypted"
  \* --- secret swap (encrypt_swap / decrypt_swap) ---
  plainFile,  \* disk state of `file`: [exists, data]
  encFile,    \* disk state of `file_enc`: [exists, data]
  feBuffer,   \* bytes held by the open writer `fe`, not yet on disk
  op,         \* the swap being (or last) run: "none" | "encrypt" | "decrypt"
  pc,         \* position inside the swap, "idle" between calls
  password,   \* the password argument of the call (NoPassword: None)
  local,      \* the call's local value: `enc` (encrypt) or `data` (decrypt)
  outcome,    \* how the last call ended
  preFiles,   \* the pair as it was when the call started
  \* --- deep merge (merge) ---
  mA, mB, mC, \* three configuration trees, as values
  mOverwrite, \* the overwrite argument of every call
  mPc,        \* which calls were made
  mHeap,      \* the list objects: mHeap[r] is the content of list r
  mTrees,     \* the objects a, b and c as they are now (lists by reference)
  mSnaps,     \* each tree passed as source, with its value when it was passed
  mLeft,      \* the value of merge(c, merge(b, a))
  mRight,     \* the value of merge(merge(c, b), a)
  \* --- deep diff (diff) ---
  dPrevious,  \* the argument previous
  dCurrent,   \* the argument current
  dResult,    \* what diff returned: [res, err]
  dPc,        \* "start" | "done"
  \* --- schema reconciliation (ensure_definition_matches) ---
  rDefinition, \* the argument definition
  rDefaults,  \* the argument defaults
  rData,      \* the argument data
  rAnswers,   \* what the user types at the successive prompts of ask_input
  rResult,    \* what the call returned: [values, asked, log, err]
  rPc,        \* "start" | "done"
  \* --- TemplateEngine.copy ---
  copyArgs,       \* the arguments path, origin and local_dst of the outermost call
  srcFiles,       \* the regular files of the source tree, each a path
  excluded_paths, \* the argument excluded_paths, each the str of a path or pattern
  gen_template,   \* the argument gen_template
  dstFiles,       \* the files written so far: pairs <<path, content>>
  dstDirs,        \* the directories of the destination
  frames,         \* the calls of copy in progress, the innermost last
  copyPc          \* "off" | "run" | "done" | "raised"

codecVars == <<cSource, cPw, cCipher, cResult, cPc>>
swapVars == <<plainFile, encFile, feBuffer, op, pc, password, local, outcome, preFiles>>
mergeVars == <<mA, mB, mC, mOverwrite, mPc, mHeap, mTrees, mSnaps, mLeft, mRight>>
diffVars == <<dPrevious, dCurrent, dResult, dPc>>
reconcileVars == <<rDefinition, rDefaults, rData, rAnswers, rResult, rPc>>
copyVars == <<copyArgs, srcFiles, excluded_paths, gen_template, dstFiles, dstDirs, frames, copyPc>>
exceptCodec == <<swapVars, mergeVars, diffVars, reconcileVars, copyVars>>
exceptSwap == <<codecVars, mergeVars, diffVars, reconcileVars, copyVars>>
exceptMerge == <<codecVars, swapVars, diffVars, reconcileVars, copyVars>>
exceptDiff == <<codecVars, swapVars, mergeVars, reconcileVars, copyVars>>
exceptReconcile == <<codecVars, swapVars, mergeVars, diffVars, copyVars>>
exceptCopy == <<codecVars, swapVars, mergeVars, diffVars, reconcileVars>>
vars == <<codecVars, swapVars, mergeVars, diffVars, reconcileVars, copyVars>>

(***************************************************************************)
(* Bytes and Python's slices.                                              *)
(***************************************************************************)
Byte == 0..255

Take(s, n) == IF n <= 0 THEN <<>> ELSE IF n >= Len(s) THEN s ELSE SubSeq(s, 1, n)

Drop(s, n) == IF n <= 0 THEN s ELSE IF n >= Len(s) THEN <<>> ELSE SubSeq(s, n + 1, Len(s))

\* bytes([b]) * n
Repeat(b, n) == [i \in 1..n |-> b]

\* data[-n:] : the last n bytes; the whole of data when n = 0 or n > len(data)
LastSlice(data, n) == IF n = 0 \/ n >= Len(data) THEN data ELSE Drop(data, Len(data) - n)

\* data[:-n] : all but the last n bytes; empty when n = 0 or n >= len(data)
ButLastSlice(data, n) == IF n = 0 \/ n >= Len(data) THEN <<>> ELSE Take(data, Len(data) - n)

(***************************************************************************)
(* The primitives of the Crypto library, modelled by what the code relies  *)
(* on: SHA256 as an injective map from passphrases to keys, AES as a keyed *)
(* permutation of blocks, CBC as the chaining of blocks through it (the    *)
(* bytewise exclusive-or is modelled by the addition modulo 256).          *)
(***************************************************************************)
BlockSize == 16

Passphrases == {"pw1", "pw2"}

SHA256(pw) == IF pw = "pw1" THEN 37 ELSE 101

Mix(a, b) == [j \in 1..Len(a) |-> (a[j] + b[j]) % 256]

Unmix(a, b) == [j \in 1..Len(a) |-> (a[j] + 256 - b[j]) % 256]

BlockEncrypt(k, blk) == [j \in 1..Len(blk) |-> (blk[j] + k) % 256]

BlockDecrypt(k, blk) == [j \in 1..Len(blk) |-> (blk[j] + 256 - k) % 256]

RECURSIVE CBCEncrypt(_, _, _)
CBCEncrypt(k, prev, src) ==
  IF src = <<>> THEN <<>>
  ELSE LET c == BlockEncrypt(k, Mix(Take(src, BlockSize), prev))
       IN  c \o CBCEncrypt(k, c, Drop(src, BlockSize))

RECURSIVE CBCDecrypt(_, _, _)
CBCDecrypt(k, prev, ct) ==
  IF ct = <<>> THEN <<>>
  ELSE LET c == Take(ct, BlockSize)
       IN  Unmix(BlockDecrypt(k, c), prev) \o CBCDecrypt(k, c, Drop(ct, BlockSize))

(***************************************************************************)
(* encrypt_with_key and decrypt_with_key.                                  *)
(***************************************************************************)
\* a plausible slip: no padding at all for an input that is already aligned
PaddingLen_NoneWhenAligned(source) == (BlockSize - (Len(source) % BlockSize)) % BlockSize

PaddingLen(source) == BlockSize - (Len(source) % BlockSize)

Pad(source) == source \o Repeat(PaddingLen(source), PaddingLen(source))

\* i_v stands for the bytes Random.new().read(AES.block_size) returned
encrypt_with_key(key, source, i_v) == i_v \o CBCEncrypt(SHA256(key), i_v, Pad(source))

Ok(data) == [err |-> "none", data |-> data]

Raise(kind) == [err |-> kind, data |-> <<>>]

\* a plausible slip: the padding is stripped without being validated
decrypt_with_key_Unchecked(key, source) ==
  LET i_v == Take(source, BlockSize)
      body == Drop(source, BlockSize)
      data == CBCDecrypt(SHA256(key), i_v, body)
  IN  IF Len(i_v) # BlockSize \/ Len(body) % BlockSize # 0 THEN Raise("ValueError")
      ELSE IF data = <<>> THEN Raise("IndexError")
      ELSE Ok(ButLastSlice(data, data[Len(data)]))

decrypt_with_key(key, source) ==
  LET i_v == Take(source, BlockSize)
      body == Drop(source, BlockSize)
      data == CBCDecrypt(SHA256(key), i_v, body)
      padding == data[Len(data)]
  IN  IF Len(i_v) # BlockSize \/ Len(body) % BlockSize # 0 THEN Raise("ValueError")
      ELSE IF data = <<>> THEN Raise("IndexError")
      ELSE IF LastSlice(data, padding) # Repeat(padding, padding) THEN Raise("Exception")
      ELSE Ok(ButLastSlice(data, padding))

(***************************************************************************)
(* Inputs of the codec: byte strings of every length from 0 to past one    *)
(* block, a run of one byte followed by a short arbitrary tail, so that    *)
(* the plaintext may itself end in bytes that look like padding.           *)
(***************************************************************************)
MaxFill == 16

MaxTail == 2

ByteVals == {1, 2, 16}

Tails == UNION {[1..n -> ByteVals] : n \in 0..MaxTail}

Sources == {Repeat(b, n) \o t : b \in ByteVals, n \in 0..MaxFill, t \in Tails}

IVs == {Repeat(b, BlockSize) : b \in {0, 200}}

NoResult == Raise("not run")

CodecIdle ==
  /\ cSource = <<>>
  /\ cPw = "pw1"
  /\ cCipher = <<>>
  /\ cResult = NoResult
  /\ cPc = "off"

CodecInit ==
  /\ cSource \in Sources
  /\ cPw \in Passphrases
  /\ cCipher = <<>>
  /\ cResult = NoResult
  /\ cPc = "start"

Encrypt ==
  /\ cPc = "start"
  /\ \E i_v \in IVs : cCipher' = encrypt_with_key(cPw, cSource, i_v)
  /\ cPc' = "encrypted"
  /\ UNCHANGED <<cSource, cPw, cResult, exceptCodec>>

Decrypt ==
  /\ cPc = "encrypted"
  /\ cResult' = decrypt_with_key(cPw, cCipher)
  /\ cPc' = "decrypted"
  /\ UNCHANGED <<cSource, cPw, cCipher, exceptCodec>>

CodecNext == Encrypt \/ Decrypt

(***************************************************************************)
(* The secret file pair and the swaps.  A file on disk is a record: whether*)
(* it exists and the bytes it holds.                                       *)
(***************************************************************************)
NoFile == [exists |-> FALSE, data |-> <<>>]

File(data) == [exists |-> TRUE, data |-> data]

NoPassword == "None"

\* the buffer of the writer open() returns: a write that fits is kept in the
\* buffer until the writer is flushed or closed
BufferSize == 4096

Continuation(b) == b \in 128..191

\* bytes.decode("utf-8") succeeds exactly on well-formed UTF-8
RECURSIVE Utf8Valid(_)
Utf8Valid(s) ==
  IF s = <<>> THEN TRUE
  ELSE LET b == s[1] IN
    IF b < 128 THEN Utf8Valid(Drop(s, 1))
    ELSE IF b \in 194..223 THEN
      /\ Len(s) >= 2
      /\ Continuation(s[2])
      /\ Utf8Valid(Drop(s, 2))
    ELSE IF b \in 224..239 THEN
      /\ Len(s) >= 3
      /\ s[2] \in (IF b = 224 THEN 160..191 ELSE IF b = 237 THEN 128..159 ELSE 128..191)
      /\ Continuation(s[3])
      /\ Utf8Valid(Drop(s, 3))
    ELSE IF b \in 240..244 THEN
      /\ Len(s) >= 4
      /\ s[2] \in (IF b = 240 THEN 144..191 ELSE IF b = 244 THEN 128..143 ELSE 128..191)
      /\ Continuation(s[3])
      /\ Continuation(s[4])
      /\ Utf8Valid(Drop(s, 4))
    ELSE FALSE

encrypt_file(file, pw, i_v) ==
  IF pw = NoPassword THEN Raise("PasswordException")
  ELSE IF ~file.exists THEN Raise("FileNotFoundError")
  ELSE Ok(encrypt_with_key(pw, file.data, i_v))

decrypt_file(file, pw) ==
  IF pw = NoPassword THEN Raise("PasswordException")
  ELSE IF ~file.exists THEN Raise("FileNotFoundError")
  ELSE decrypt_with_key(pw, file.data)

\* line 430: enc = encrypt_file(file, password)
EncryptSwapCall ==
  /\ pc = "idle"
  /\ \E pw \in Passphrases \cup {NoPassword}, i_v \in IVs :
       LET r == encrypt_file(plainFile, pw, i_v) IN
       /\ password' = pw
       /\ local' = r.data
       /\ outcome' = IF r.err = "none" THEN "running" ELSE r.err
       /\ pc' = IF r.err = "none" THEN "enc_open" ELSE "idle"
  /\ op' = "encrypt"
  /\ preFiles' = <<plainFile, encFile>>
  /\ UNCHANGED <<plainFile, encFile, feBuffer, exceptSwap>>

\* lines 431-432: file_enc.open("wb") creates or truncates the file; chmod
\* changes its mode only
EncryptSwapOpen ==
  /\ pc = "enc_open"
  /\ encFile' = File(<<>>)
  /\ feBuffer' = <<>>
  /\ pc' = "enc_write"
  /\ UNCHANGED <<plainFile, op, password, local, outcome, preFiles, exceptSwap>>

\* line 433: fe.write(enc)
EncryptSwapWrite ==
  /\ pc = "enc_write"
  /\ IF Len(local) <= BufferSize
       THEN feBuffer' = feBuffer \o local /\ UNCHANGED encFile
       ELSE encFile' = File(encFile.data \o feBuffer \o local) /\ feBuffer' = <<>>
  /\ pc' = "enc_unlink"
  /\ UNCHANGED <<plainFile, op, password, local, outcome, preFiles, exceptSwap>>

\* a plausible slip: the plaintext is left in place
EncryptSwapUnlink_Kept ==
  /\ pc = "enc_unlink"
  /\ pc' = "enc_close"
  /\ UNCHANGED <<plainFile, encFile, feBuffer, op, password, local, outcome, preFiles, exceptSwap>>

\* line 434: file.unlink(), inside the with block: the writer is still open
EncryptSwapUnlink ==
  /\ pc = "enc_unlink"
  /\ plainFile' = NoFile
  /\ pc' = "enc_close"
  /\ UNCHANGED <<encFile, feBuffer, op, password, local, outcome, preFiles, exceptSwap>>

\* the end of the with block (lines 431-434): the writer is flushed and closed
EncryptSwapClose ==
  /\ pc = "enc_close"
  /\ encFile' = File(encFile.data \o feBuffer)
  /\ feBuffer' = <<>>
  /\ outcome' = "ok"
  /\ pc' = "idle"
  /\ UNCHANGED <<plainFile, op, password, local, preFiles, exceptSwap>>

\* line 447: data = decrypt_file(file_enc, password)
DecryptSwapCall ==
  /\ pc = "idle"
  /\ \E pw \in Passphrases \cup {NoPassword} :
       LET r == decrypt_file(encFile, pw) IN
       /\ password' = pw
       /\ local' = r.data
       /\ outcome' = IF r.err = "none" THEN "running" ELSE r.err
       /\ pc' = IF r.err = "none" THEN "dec_write" ELSE "idle"
  /\ op' = "decrypt"
  /\ preFiles' = <<plainFile, encFile>>
  /\ UNCHANGED <<plainFile, encFile, feBuffer, exceptSwap>>

\* line 448: file.write_text(data.decode("utf-8")): the decoding comes first;
\* write_text opens, writes and closes the file (the text is written back in
\* UTF-8, without newline translation)
DecryptSwapWrite ==
  /\ pc = "dec_write"
  /\ IF Utf8Valid(local)
       THEN plainFile' = File(local) /\ pc' = "dec_unlink" /\ UNCHANGED outcome
       ELSE outcome' = "UnicodeDecodeError" /\ pc' = "idle" /\ UNCHANGED plainFile
  /\ UNCHANGED <<encFile, feBuffer, op, password, local, preFiles, exceptSwap>>

\* lines 449-450: os.chmod(file, 0o600); file_enc.unlink()
DecryptSwapUnlink ==
  /\ pc = "dec_unlink"
  /\ encFile' = NoFile
  /\ outcome' = "ok"
  /\ pc' = "idle"
  /\ UNCHANGED <<plainFile, feBuffer, op, password, local, preFiles, exceptSwap>>

\* the process dies in the middle of a swap: what the writer still buffers is
\* lost, the disk stays as it is
Crash ==
  /\ pc \notin {"idle", "crashed"}
  /\ pc' = "crashed"
  /\ feBuffer' = <<>>
  /\ outcome' = "crashed"
  /\ UNCHANGED <<plainFile, encFile, op, password, local, preFiles, exceptSwap>>

\* a new process takes over the pair the crash left
Restart ==
  /\ pc = "crashed"
  /\ pc' = "idle"
  /\ UNCHANGED <<plainFile, encFile, feBuffer, op, password, local, outcome, preFiles, exceptSwap>>

\* the pairs a run starts from
SwapSecrets == {<<>>, <<104, 105>>, Repeat(97, BlockSize), <<195, 169>>, <<255>>}

ValidCiphers == {encrypt_with_key(pw, s, Repeat(0, BlockSize)) : pw \in Passphrases, s \in SwapSecrets}

\* corrupted ciphertexts: a byte lost, everything but the i_v lost, the last
\* byte changed
Corrupted(c) ==
  {Take(c, Len(c) - 1), Take(c, BlockSize), [c EXCEPT ![Len(c)] = (c[Len(c)] + 1) % 256]}

SwapCiphers ==
  ValidCiphers \cup UNION {Corrupted(encrypt_with_key("pw1", s, Repeat(0, BlockSize))) : s \in {<<104, 105>>}}

SwapIdle ==
  /\ plainFile = NoFile
  /\ encFile = NoFile
  /\ feBuffer = <<>>
  /\ op = "none"
  /\ pc = "off"
  /\ password = NoPassword
  /\ local = <<>>
  /\ outcome = "none"
  /\ preFiles = <<NoFile, NoFile>>

SwapInit ==
  /\ plainFile \in {NoFile} \cup {File(s) : s \in SwapSecrets}
  /\ encFile \in {NoFile} \cup {File(c) : c \in SwapCiphers}
  /\ feBuffer = <<>>
  /\ op = "none"
  /\ pc = "idle"
  /\ password = NoPassword
  /\ local = <<>>
  /\ outcome = "none"
  /\ preFiles = <<plainFile, encFile>>

SwapNext ==
  \/ EncryptSwapCall
  \/ EncryptSwapOpen
  \/ EncryptSwapWrite
  \/ EncryptSwapUnlink
  \/ EncryptSwapClose
  \/ DecryptSwapCall
  \/ DecryptSwapWrite
  \/ DecryptSwapUnlink
  \/ Crash
  \/ Restart

(***************************************************************************)
(* Configuration trees.  A value is a pair <<kind, payload>>.  A mapping   *)
(* is total over Keys, Absent marking a key that                           *)
(* is not in it.  As an object, a list is a reference into the heap of     *)
(* list objects (two mappings may hold the same list); as a value, it      *)
(* holds its elements.                                                     *)
(***************************************************************************)
Keys == {"a", "b"}

\* the order in which source.items() yields the keys
KeySeq == <<"a", "b">>

Absent == <<"absent", 0>>

None == <<"none", 0>>

Scalar(n) == <<"scalar", n>>

\* a mapping that is an element of a list: unhashable, never looked into
DictElement == <<"element", 0>>

List(elements) == <<"list", elements>>

ListRef(r) == <<"ref", r>>

Dict(f) == <<"dict", f>>

EmptyDict == Dict([key \in Keys |-> Absent])

Put(dict, key, value) == Dict([dict[2] EXCEPT ![key] = value])

IsEmpty(dict) == \A key \in Keys : dict[2][key] = Absent

RECURSIVE AllocDict(_, _, _)
\* the object a caller builds for the value `val`: each list is a new object
AllocValue(val, heap) ==
  IF val[1] = "list" THEN [t |-> ListRef(Len(heap) + 1), h |-> Append(heap, val[2])]
  ELSE IF val[1] = "dict" THEN AllocDict(val, 1, heap)
  ELSE [t |-> val, h |-> heap]

AllocDict(dict, i, heap) ==
  IF i > Len(KeySeq) THEN [t |-> dict, h |-> heap]
  ELSE LET r == AllocValue(dict[2][KeySeq[i]], heap)
       IN  AllocDict(Put(dict, KeySeq[i], r.t), i + 1, r.h)

RECURSIVE Deref(_, _)
\* the value of an object
Deref(obj, heap) ==
  IF obj[1] = "ref" THEN List(heap[obj[2]])
  ELSE IF obj[1] = "dict" THEN Dict([key \in Keys |-> Deref(obj[2][key], heap)])
  ELSE obj

\* hash(x) raises TypeError for a mapping
Hashable(x) == x[1] # "element"

RECURSIVE Dedup(_)
\* list(dict.fromkeys(s)): the first occurrence of each element, in order
Dedup(s) ==
  IF s = <<>> THEN <<>>
  ELSE LET front == Dedup(Take(s, Len(s) - 1))
           last == s[Len(s)]
       IN  IF \E i \in 1..Len(front) : front[i] = last THEN front ELSE Append(front, last)

(***************************************************************************)
(* merge(source, destination, overwrite).  The result is the destination   *)
(* object, the heap after the call and whether the call raised.            *)
(***************************************************************************)
Merged(dest, heap) == [dest |-> dest, heap |-> heap, err |-> FALSE]

MergeRaised(dest, heap) == [dest |-> dest, heap |-> heap, err |-> TRUE]

RECURSIVE merge(_, _, _, _)
RECURSIVE MergeKey(_, _, _, _, _)
RECURSIVE MergeKeys(_, _, _, _, _)
RECURSIVE MergeKeys_ReturnInLoop(_, _, _, _, _)

\* a plausible slip: `return destination` indented into the for loop, so that
\* only the first item of source is merged
MergeKeys_ReturnInLoop(source, dest, overwrite, heap, i) ==
  IF i > Len(KeySeq) THEN Merged(dest, heap)
  ELSE IF source[2][KeySeq[i]] = Absent
    THEN MergeKeys_ReturnInLoop(source, dest, overwrite, heap, i + 1)
  ELSE IF dest[1] # "dict" THEN MergeRaised(dest, heap)
  ELSE MergeKey(KeySeq[i], source[2][KeySeq[i]], dest, overwrite, heap)

\* lines 118-141: the loop over the items of source, from the i-th key on
MergeKeys(source, dest, overwrite, heap, i) ==
  IF i > Len(KeySeq) THEN Merged(dest, heap)
  ELSE IF source[2][KeySeq[i]] = Absent THEN MergeKeys(source, dest, overwrite, heap, i + 1)
  \* a destination that is no mapping has no get, setdefault or item assignment
  ELSE IF dest[1] # "dict" THEN MergeRaised(dest, heap)
  ELSE LET r == MergeKey(KeySeq[i], source[2][KeySeq[i]], dest, overwrite, heap)
       IN  IF r.err THEN r ELSE MergeKeys(source, r.dest, overwrite, r.heap, i + 1)

\* lines 119-139: one item (key, value) of source
MergeKey(key, value, dest, overwrite, heap) ==
  IF value[1] = "dict" THEN
    \* lines 121-125
    LET d1 == IF overwrite /\ dest[2][key][1] # "dict" THEN Put(dest, key, EmptyDict) ELSE dest
        d2 == IF d1[2][key] = Absent THEN Put(d1, key, EmptyDict) ELSE d1
        node == d2[2][key]
        r == merge(value, node, overwrite, heap)
        \* a node that is None is merged into a new mapping that is dropped
        d3 == IF node[1] = "dict" THEN Put(d2, key, r.dest) ELSE d2
    IN  [dest |-> d3, heap |-> r.heap, err |-> r.err]
  ELSE IF value[1] = "ref" THEN
    IF dest[2][key] # Absent THEN
      \* lines 129-135
      LET reset == overwrite /\ dest[2][key][1] # "ref"
          heap1 == IF reset THEN Append(heap, <<>>) ELSE heap
          cur == IF reset THEN ListRef(Len(heap1)) ELSE dest[2][key]
          d1 == Put(dest, key, cur)
      IN  IF cur[1] # "ref" THEN MergeRaised(d1, heap1)
          ELSE LET both == heap1[cur[2]] \o heap1[value[2]] IN
            IF \A j \in 1..Len(both) : Hashable(both[j])
              THEN Merged(Put(d1, key, ListRef(Len(heap1) + 1)), Append(heap1, Dedup(both)))
              ELSE Merged(d1, [heap1 EXCEPT ![cur[2]] = both])
    \* line 137: the destination now holds the list object of source
    ELSE Merged(Put(dest, key, value), heap)
  \* lines 138-139
  ELSE IF overwrite \/ dest[2][key] = Absent THEN Merged(Put(dest, key, value), heap)
  ELSE Merged(dest, heap)

\* lines 108-141
merge(source, destination, overwrite, heap) ==
  IF source = None \/ (source[1] = "dict" /\ IsEmpty(source)) THEN Merged(destination, heap)
  ELSE MergeKeys(source, IF destination = None THEN EmptyDict ELSE destination,
                 overwrite, heap, 1)

(***************************************************************************)
(* Inputs of merge: trees over two keys, nested one level; key "a" holds   *)
(* any kind of value, key "b" a scalar at most.                            *)
(***************************************************************************)
MaxScalar == 2

Scalars == {Scalar(n) : n \in 1..MaxScalar}

Lists == {List(<<Scalar(1)>>), List(<<Scalar(2), Scalar(1)>>), List(<<Scalar(1), Scalar(1)>>),
          List(<<DictElement>>)}

InnerDicts ==
  {Dict([key \in Keys |-> IF key = "a" THEN x ELSE Absent]) :
     x \in {Absent, List(<<Scalar(1)>>)} \cup Scalars}

Trees ==
  {Dict([key \in Keys |-> IF key = "a" THEN x ELSE y]) :
     x \in {Absent, None} \cup Scalars \cup Lists \cup InnerDicts,
     y \in {Absent, Scalar(1)}}

MergeIdle ==
  /\ mA = EmptyDict
  /\ mB = EmptyDict
  /\ mC = EmptyDict
  /\ mOverwrite = TRUE
  /\ mPc = "off"
  /\ mHeap = <<>>
  /\ mTrees = <<EmptyDict, EmptyDict, EmptyDict>>
  /\ mSnaps = <<>>
  /\ mLeft = EmptyDict
  /\ mRight = EmptyDict

MergeInit ==
  /\ mA \in Trees
  /\ mB \in Trees
  /\ mC \in Trees
  /\ mOverwrite \in BOOLEAN
  /\ mPc = "start"
  /\ mHeap = <<>>
  /\ mTrees = <<EmptyDict, EmptyDict, EmptyDict>>
  /\ mSnaps = <<>>
  /\ mLeft = EmptyDict
  /\ mRight = EmptyDict

\* the caller builds the three trees as new objects
Objects ==
  LET ra == AllocValue(mA, <<>>)
      rb == AllocValue(mB, ra.h)
      rc == AllocValue(mC, rb.h)
  IN  [a |-> ra.t, b |-> rb.t, c |-> rc.t, heap |-> rc.h]

Snapshot(obj, heap) == [t |-> obj, val |-> Deref(obj, heap)]

\* merge(b, a, overwrite)
MergeBIntoA ==
  /\ mPc = "start"
  /\ LET o == Objects
         r == merge(o.b, o.a, mOverwrite, o.heap)
     IN  /\ mHeap' = r.heap
         /\ mTrees' = <<r.dest, o.b, o.c>>
         /\ mSnaps' = <<Snapshot(o.b, o.heap)>>
         /\ mPc' = IF r.err THEN "raised" ELSE "ba"
  /\ UNCHANGED <<mA, mB, mC, mOverwrite, mLeft, mRight, exceptMerge>>

\* merge(c, a, overwrite), a being the result of merge(b, a)
MergeCIntoBA ==
  /\ mPc = "ba"
  /\ LET r == merge(mTrees[3], mTrees[1], mOverwrite, mHeap)
     IN  /\ mHeap' = r.heap
         /\ mTrees' = <<r.dest, mTrees[2], mTrees[3]>>
         /\ mSnaps' = Append(mSnaps, Snapshot(mTrees[3], mHeap))
         /\ mLeft' = Deref(r.dest, r.heap)
         /\ mPc' = IF r.err THEN "raised" ELSE "left"
  /\ UNCHANGED <<mA, mB, mC, mOverwrite, mRight, exceptMerge>>

\* from the three trees built anew: merge(c, b, overwrite)
MergeCIntoB ==
  /\ mPc = "left"
  /\ LET o == Objects
         r == merge(o.c, o.b, mOverwrite, o.heap)
     IN  /\ mHeap' = r.heap
         /\ mTrees' = <<o.a, r.dest, o.c>>
         /\ mSnaps' = <<Snapshot(o.c, o.heap)>>
         /\ mPc' = IF r.err THEN "raised" ELSE "cb"
  /\ UNCHANGED <<mA, mB, mC, mOverwrite, mLeft, mRight, exceptMerge>>

\* merge(b, a, overwrite), b being the result of merge(c, b)
MergeCBIntoA ==
  /\ mPc = "cb"
  /\ LET r == merge(mTrees[2], mTrees[1], mOverwrite, mHeap)
     IN  /\ mHeap' = r.heap
         /\ mTrees' = <<r.dest, mTrees[2], mTrees[3]>>
         /\ mSnaps' = Append(mSnaps, Snapshot(mTrees[2], mHeap))
         /\ mRight' = Deref(r.dest, r.heap)
         /\ mPc' = IF r.err THEN "raised" ELSE "right"
  /\ UNCHANGED <<mA, mB, mC, mOverwrite, mLeft, exceptMerge>>

MergeNext == MergeBIntoA \/ MergeCIntoBA \/ MergeCIntoB \/ MergeCBIntoA

(***************************************************************************)
(* diff(previous, current), on trees as values.                            *)
(***************************************************************************)
DiffOk(res) == [res |-> res, err |-> FALSE]

DiffRaised == [res |-> EmptyDict, err |-> TRUE]

\* line 165: [x for x in value if x not in p_value]; `in` raises on a scalar
\* p_value and, on a mapping p_value, for an unhashable x
NotInRaises(value, p_value) ==
  /\ value[2] # <<>>
  /\ \/ p_value[1] = "scalar"
     \/ p_value[1] = "dict" /\ \E j \in 1..Len(value[2]) : ~Hashable(value[2][j])

RECURSIVE Filter(_, _)
\* the elements of the list `elements` that are not in p_value: not among
\* the elements of a list, not among the keys of a mapping
Filter(elements, p_value) ==
  IF elements = <<>> THEN <<>>
  ELSE LET x == elements[1]
           found == p_value[1] = "list" /\ \E j \in 1..Len(p_value[2]) : p_value[2][j] = x
       IN  (IF found THEN <<>> ELSE <<x>>) \o Filter(Drop(elements, 1), p_value)

RECURSIVE diff(_, _)
RECURSIVE DiffKeys(_, _, _, _)

\* lines 152-170: the loop over the keys of current, from the i-th key on
DiffKeys(previous, current, result, i) ==
  IF i > Len(KeySeq) THEN DiffOk(result)
  ELSE LET key == KeySeq[i]
           value == current[2][key]
           p_value == previous[2][key]
       IN
    IF value = Absent THEN DiffKeys(previous, current, result, i + 1)
    \* line 154: a previous that is no mapping has no get
    ELSE IF previous[1] # "dict" THEN DiffRaised
    \* lines 155-157: previous.get(key, None) is None
    ELSE IF p_value = Absent \/ p_value = None
      THEN DiffKeys(previous, current, Put(result, key, value), i + 1)
    \* lines 159-162
    ELSE IF value[1] = "dict" THEN
      LET difference == diff(p_value, value) IN
      IF difference.err THEN DiffRaised
      ELSE IF ~IsEmpty(difference.res)
        THEN DiffKeys(previous, current, Put(result, key, difference.res), i + 1)
      ELSE DiffKeys(previous, current, result, i + 1)
    \* lines 164-167
    ELSE IF value[1] = "list" THEN
      IF NotInRaises(value, p_value) THEN DiffRaised
      ELSE IF Filter(value[2], p_value) # <<>>
        THEN DiffKeys(previous, current, Put(result, key, List(Filter(value[2], p_value))), i + 1)
      ELSE DiffKeys(previous, current, result, i + 1)
    \* lines 169-170
    ELSE IF value # p_value THEN DiffKeys(previous, current, Put(result, key, value), i + 1)
    ELSE DiffKeys(previous, current, result, i + 1)

\* lines 144-172
diff(previous, current) == DiffKeys(previous, current, EmptyDict, 1)

DiffIdle ==
  /\ dPrevious = EmptyDict
  /\ dCurrent = EmptyDict
  /\ dResult = DiffOk(EmptyDict)
  /\ dPc = "off"

DiffInit ==
  /\ dPrevious \in Trees
  /\ dCurrent \in Trees
  /\ dResult = DiffOk(EmptyDict)
  /\ dPc = "start"

Diff ==
  /\ dPc = "start"
  /\ dResult' = diff(dPrevious, dCurrent)
  /\ dPc' = "done"
  /\ UNCHANGED <<dPrevious, dCurrent, exceptDiff>>

DiffNext == Diff

(***************************************************************************)
(* ensure_definition_matches and ensure_key_present.  Definitions,         *)
(* defaults and data are values as above, over the names of the schema; a  *)
(* leaf named in a list is a Name, a configured value a Str (a string that *)
(* holds no name of the schema).  A prompt label is the sequence of the    *)
(* pieces it is concatenated from.                                         *)
(***************************************************************************)
Names == {"db", "host", "port", "name"}

\* the order in which definition.items() yields the entries
NameSeq == <<"db", "host", "port", "name">>

Name(n) == <<"name", n>>

Str(x) == <<"str", x>>

NoEntries == Dict([n \in Names |-> Absent])

Entry(dict, key, value) == Dict([dict[2] EXCEPT ![key] = value])

\* d.get(key, default)
Get(d, key, default) == IF d[2][key] = Absent THEN default ELSE d[2][key]

\* `key in container` raises for None
InRaises(container) == container = None

\* `key in container`: a key of a mapping, an element of a list; no Str holds
\* a name
In(key, container) ==
  IF container[1] = "dict" THEN container[2][key] # Absent
  ELSE IF container[1] = "list" THEN \E j \in 1..Len(container[2]) : container[2][j] = Str(key)
  ELSE FALSE

\* values.update(other)
Update(values, other) ==
  Dict([n \in Names |-> IF other[2][n] # Absent THEN other[2][n] ELSE values[2][n]])

Resolved(value, src, label, st) ==
  [value |-> value, err |-> FALSE,
   asked |-> IF src = "input" THEN Append(st.asked, label) ELSE st.asked,
   log |-> Append(st.log, [label |-> label, src |-> src, value |-> value])]

KeyRaised(st) == [value |-> None, err |-> TRUE, asked |-> st.asked, log |-> st.log]

\* a plausible slip: the defaults are looked up before the data
ensure_key_present_DefaultsFirst(key, default, data, path, st, answers) ==
  IF InRaises(default) THEN KeyRaised(st)
  ELSE IF In(key, default) THEN
    IF default[1] = "dict" THEN Resolved(default[2][key], "defaults", path \o <<key>>, st)
    ELSE KeyRaised(st)
  ELSE IF InRaises(data) THEN KeyRaised(st)
  ELSE IF In(key, data) THEN
    IF data[1] = "dict" THEN Resolved(data[2][key], "data", path \o <<key>>, st)
    ELSE KeyRaised(st)
  ELSE Resolved(Str(answers[Len(st.asked) + 1]), "input", path \o <<key>>, st)

\* lines 340-349; st holds the prompts made so far (asked) and every
\* resolution made so far (log)
ensure_key_present(key, default, data, path, st, answers) ==
  IF InRaises(data) THEN KeyRaised(st)
  ELSE IF In(key, data) THEN
    \* data.get(key): only a mapping has get
    IF data[1] = "dict" THEN Resolved(data[2][key], "data", path \o <<key>>, st)
    ELSE KeyRaised(st)
  ELSE IF InRaises(default) THEN KeyRaised(st)
  ELSE IF In(key, default) THEN
    IF default[1] = "dict" THEN Resolved(default[2][key], "defaults", path \o <<key>>, st)
    ELSE KeyRaised(st)
  \* line 349: ask_input((path or "") + key)
  ELSE Resolved(Str(answers[Len(st.asked) + 1]), "input", path \o <<key>>, st)

Reconciled(values, r) == [values |-> values, err |-> FALSE, asked |-> r.asked, log |-> r.log]

ReconcileRaised(r) == [values |-> NoEntries, err |-> TRUE, asked |-> r.asked, log |-> r.log]

RECURSIVE ensure_definition_matches(_, _, _, _, _, _)
RECURSIVE EdmNested(_, _, _, _, _, _, _, _)
RECURSIVE EdmNested_Flattened(_, _, _, _, _, _, _, _)
RECURSIVE EdmLeaves(_, _, _, _, _, _, _, _)
RECURSIVE EdmList(_, _, _, _, _, _, _, _)

\* a plausible slip: the sub-result is merged into the level of its parent
\* instead of being stored under the parent's key
EdmNested_Flattened(definition, defaults, data, path, st, answers, values, i) ==
  IF i > Len(NameSeq) THEN Reconciled(values, st)
  ELSE LET k == NameSeq[i]
           v == definition[2][k]
       IN
    IF v = Absent \/ v = None
      THEN EdmNested_Flattened(definition, defaults, data, path, st, answers, values, i + 1)
    ELSE IF defaults[1] # "dict" \/ data[1] # "dict" THEN ReconcileRaised(st)
    ELSE LET r == ensure_definition_matches(v, Get(defaults, k, List(<<>>)),
                                            Get(data, k, NoEntries), path \o <<k, "/">>,
                                            st, answers)
         IN  IF r.err THEN r
             ELSE EdmNested_Flattened(definition, defaults, data, path, r, answers,
                                      Update(values, r.values), i + 1)

\* lines 359-368: the entries whose value is not None, from the i-th on
EdmNested(definition, defaults, data, path, st, answers, values, i) ==
  IF i > Len(NameSeq) THEN Reconciled(values, st)
  ELSE LET k == NameSeq[i]
           v == definition[2][k]
       IN
    IF v = Absent \/ v = None
      THEN EdmNested(definition, defaults, data, path, st, answers, values, i + 1)
    \* defaults.get(k, []) and data.get(k, {}): only a mapping has get
    ELSE IF defaults[1] # "dict" \/ data[1] # "dict" THEN ReconcileRaised(st)
    ELSE LET r == ensure_definition_matches(v, Get(defaults, k, List(<<>>)),
                                            Get(data, k, NoEntries), path \o <<k, "/">>,
                                            st, answers)
         IN  IF r.err THEN r
             ELSE EdmNested(definition, defaults, data, path, r, answers,
                            Entry(values, k, r.values), i + 1)

\* lines 369-375: the entries whose value is None, from the i-th on
EdmLeaves(definition, defaults, data, path, st, answers, values, i) ==
  IF i > Len(NameSeq) THEN Reconciled(values, st)
  ELSE LET k == NameSeq[i] IN
    IF definition[2][k] # None
      THEN EdmLeaves(definition, defaults, data, path, st, answers, values, i + 1)
    ELSE LET r == ensure_key_present(k, defaults, data, path, st, answers)
         IN  IF r.err THEN ReconcileRaised(r)
             ELSE EdmLeaves(definition, defaults, data, path, r, answers,
                            Entry(values, k, r.value), i + 1)

\* lines 378-386: the elements of a list, from the j-th on
EdmList(elements, defaults, data, path, st, answers, values, j) ==
  IF j > Len(elements) THEN Reconciled(values, st)
  ELSE LET r == ensure_definition_matches(elements[j], defaults, data, path, st, answers)
       IN  IF r.err THEN r
           ELSE EdmList(elements, defaults, data, path, r, answers,
                        Update(values, r.values), j + 1)

\* lines 352-389
ensure_definition_matches(definition, defaults, data, path, st, answers) ==
  IF definition[1] = "dict" THEN
    LET nested == EdmNested(definition, defaults, data, path, st, answers, NoEntries, 1)
    IN  IF nested.err THEN nested
        ELSE EdmLeaves(definition, defaults, data, path, nested, answers, nested.values, 1)
  ELSE IF definition[1] = "list" THEN
    EdmList(definition[2], defaults, data, path, st, answers, NoEntries, 1)
  ELSE LET r == ensure_key_present(definition[2], defaults, data, path, st, answers)
       IN  IF r.err THEN ReconcileRaised(r)
           ELSE Reconciled(Entry(NoEntries, definition[2], r.value), r)

(***************************************************************************)
(* Inputs of the reconciliation.                                           *)
(***************************************************************************)
\* a mapping given by its entries, a set of <<name, value>> pairs
Mapping(entries) ==
  Dict([n \in Names |-> IF \E e \in entries : e[1] = n
                          THEN (CHOOSE e \in entries : e[1] = n)[2] ELSE Absent])

Definitions ==
  { Mapping({<<"db", Mapping({<<"host", None>>, <<"port", None>>})>>}),
    Mapping({<<"name", None>>, <<"db", Mapping({<<"host", None>>})>>}),
    Mapping({<<"db", List(<<Name("host"), Name("port")>>)>>}),
    Mapping({<<"db", List(<<Name("host"), Name("host")>>)>>}),
    List(<<Name("name"), Mapping({<<"host", None>>})>>),
    Mapping({<<"name", None>>, <<"host", None>>}),
    Mapping({<<"db", Name("host")>>}),
    Mapping({<<"db", List(<<Mapping({<<"host", None>>}),
                            Mapping({<<"host", None>>, <<"port", None>>})>>)>>}),
    Mapping({<<"db", Mapping({<<"host", Mapping({<<"port", None>>})>>})>>}) }

DataSets ==
  { Mapping({<<"db", d>>, <<"name", n>>, <<"host", h>>}) :
      d \in {Absent, None, Str("x")}
            \cup {Mapping({<<"host", dh>>, <<"port", dp>>}) :
                    dh \in {Absent, None, Str("x")}, dp \in {Absent, Str("y")}},
      n \in {Absent, Str("n")},
      h \in {Absent, Str("h")} }

DefaultSets ==
  { Mapping({<<"db", d>>, <<"name", n>>}) :
      d \in {Absent, Mapping({<<"port", Str("5432")>>}),
             Mapping({<<"host", Str("dh")>>, <<"port", Str("5432")>>})},
      n \in {Absent, Str("dn")} }

\* the number of prompts a run may make
MaxAsks == 3

NoPrompts == [asked |-> <<>>, log |-> <<>>]

ReconcileIdle ==
  /\ rDefinition = NoEntries
  /\ rDefaults = NoEntries
  /\ rData = NoEntries
  /\ rAnswers = <<>>
  /\ rResult = Reconciled(NoEntries, NoPrompts)
  /\ rPc = "off"

ReconcileInit ==
  /\ rDefinition \in Definitions
  /\ rDefaults \in DefaultSets
  /\ rData \in DataSets
  /\ rAnswers \in [1..MaxAsks -> {"42", "43"}]
  /\ rResult = Reconciled(NoEntries, NoPrompts)
  /\ rPc = "start"

\* ensure_definition_matches(definition, defaults, data)
Reconcile ==
  /\ rPc = "start"
  /\ rResult' = ensure_definition_matches(rDefinition, rDefaults, rData, <<>>, NoPrompts, rAnswers)
  /\ rPc' = "done"
  /\ UNCHANGED <<rDefinition, rDefaults, rData, rAnswers, exceptReconcile>>

ReconcileNext == Reconcile

(***************************************************************************)
(* TemplateEngine.copy.  A file name is the sequence of its pieces, the    *)
(* extensions apart (<<"x", ".template">>); a path is the sequence of its  *)
(* names; the str of a path is the sequence of its pieces and separators.  *)
(* The content of a source file is the file's own path.                    *)
(***************************************************************************)
Exts == {".txt", ".yml", ".template"}

SrcRoot == <<<<"src">>>>

DstRoot == <<<<"dst">>>>

Parent(path) == Take(path, Len(path) - 1)

NameOf(path) == path[Len(path)]

RECURSIVE PathStr(_)

\* str(path)
PathStr(path) == IF path = <<>> THEN <<>> ELSE <<"/">> \o Head(path) \o PathStr(Tail(path))

IsPrefix(origin, path) == Len(origin) <= Len(path) /\ Take(path, Len(origin)) = origin

\* path.relative_to(origin)
RelativeTo(path, origin) == Drop(path, Len(origin))

\* name.endswith(".template")
IsTemplate(name) == name[Len(name)] = ".template"

\* Path.stem: the name without its last extension; a name that is nothing
\* but the extension keeps it
Stem(name) ==
  IF Len(name) > 1 /\ name[Len(name)] \in Exts THEN Take(name, Len(name) - 1) ELSE name

\* lines 301-304
remove_ext(path) == Parent(path) \o <<Stem(NameOf(path))>>

RECURSIVE Match(_, _)

\* fnmatch(string, pattern): "*" stands for any run of pieces, separators
\* included
Match(pattern, string) ==
  IF pattern = <<>> THEN string = <<>>
  ELSE IF Head(pattern) = "*"
    THEN \E i \in 0..Len(string) : Match(Tail(pattern), Drop(string, i))
  ELSE string # <<>> /\ Head(string) = Head(pattern) /\ Match(Tail(pattern), Tail(string))

\* "*" in str(path)
HasWildcard(path) == \E i \in 1..Len(path) : \E j \in 1..Len(path[i]) : path[i][j] = "*"

\* path.is_file()
IsFile(path) == path \in srcFiles

\* path.is_dir(): the root of the source tree, and the folders that hold a file
IsDir(path) ==
  path = SrcRoot \/ \E f \in srcFiles : Len(path) < Len(f) /\ IsPrefix(path, f)

\* path.iterdir()
IterDir(path) ==
  {Take(f, Len(path) + 1) : f \in {g \in srcFiles : Len(path) < Len(g) /\ IsPrefix(path, g)}}

\* glob(str(path)) for a path whose last name is a pattern: the entries of
\* the folder the name matches, those that start with a dot apart
Glob(path) ==
  {c \in IterDir(Parent(path)) : NameOf(c)[1] \notin Exts /\ Match(NameOf(path), NameOf(c))}

IsDstFile(path) == \E a \in dstFiles : a[1] = path

\* write to path whatever is there
Write(files, path, content) == {a \in files : a[1] # path} \cup {<<path, content>>}

\* the folders dst_path.parent.mkdir(parents=True, exist_ok=True) asks for
Parents(path) == {Take(path, n) : n \in 1..(Len(path) - 1)}

Call(path, origin, dst) ==
  [kind |-> "call", path |-> path, origin |-> origin, dst |-> dst, rest |-> {}]

Loop(kind, path, origin, dst, rest) ==
  [kind |-> kind, path |-> path, origin |-> origin, dst |-> dst, rest |-> rest]

Top == frames[Len(frames)]

Popped == Take(frames, Len(frames) - 1)

\* the state when the innermost call returns
Return ==
  /\ frames' = Popped
  /\ copyPc' = IF Popped = <<>> THEN "done" ELSE "run"

\* an exception leaves every call in progress
Abort ==
  /\ frames' = <<>>
  /\ copyPc' = "raised"

\* lines 255-264: the path holds a wildcard
CopyWildcard ==
  /\ copyPc = "run"
  /\ Top.kind = "call"
  /\ HasWildcard(Top.path)
  /\ LET origin == IF \E j \in 1..Len(NameOf(Top.origin)) : NameOf(Top.origin)[j] = "*"
                     THEN Parent(Top.origin) ELSE Top.origin
     IN  frames' = Popped \o <<Loop("glob", Top.path, origin, Top.dst, Glob(Top.path))>>
  /\ UNCHANGED <<copyArgs, srcFiles, excluded_paths, gen_template, dstFiles, dstDirs, copyPc, exceptCopy>>

\* lines 259-264: one turn of the loop over the matches, in the order of the
\* file system
CopyMatch ==
  /\ copyPc = "run"
  /\ Top.kind = "glob"
  /\ \E path_it \in Top.rest :
       IF IsPrefix(Top.origin, path_it)
         THEN /\ frames' = Popped
                   \o <<Loop("glob", Top.path, Top.origin, Top.dst, Top.rest \ {path_it}),
                        Call(path_it, path_it, Top.dst \o RelativeTo(path_it, Top.origin))>>
              /\ UNCHANGED copyPc
         \* relative_to raises ValueError
         ELSE Abort
  /\ UNCHANGED <<copyArgs, srcFiles, excluded_paths, gen_template, dstFiles, dstDirs, exceptCopy>>

\* lines 265-293: the path is a regular file
CopyFile ==
  /\ copyPc = "run"
  /\ Top.kind = "call"
  /\ ~HasWildcard(Top.path)
  /\ IsFile(Top.path)
  /\ LET path == Top.path
         dst_path == IF path # Top.origin
                       THEN Top.dst \o RelativeTo(path, Top.origin) ELSE Top.dst
         made == dstDirs \cup Parents(dst_path)
         rendered == IF ~(dst_path \in made) /\ IsTemplate(NameOf(dst_path))
                       THEN remove_ext(dst_path) ELSE dst_path
         copied == IF dst_path \in made THEN dst_path \o <<NameOf(path)>> ELSE dst_path
     IN  \* line 267: direct match for excluded paths
         IF PathStr(path) \in excluded_paths
           THEN Return /\ UNCHANGED <<dstFiles, dstDirs>>
         \* line 279: mkdir fails over a file
         ELSE IF \E d \in Parents(dst_path) : IsDstFile(d)
           THEN Abort /\ UNCHANGED <<dstFiles, dstDirs>>
         ELSE IF gen_template /\ IsTemplate(NameOf(path)) THEN
           \* line 288: remove_ext(path.name) of a str, AttributeError
           IF dst_path \in made
             THEN Abort /\ dstDirs' = made /\ UNCHANGED dstFiles
           \* line 290: write_text to a folder
           ELSE IF rendered \in made
             THEN Abort /\ dstDirs' = made /\ UNCHANGED dstFiles
           ELSE /\ Return
                /\ dstDirs' = made
                /\ dstFiles' = Write(dstFiles, rendered, <<"rendered", path>>)
         \* line 293: copy2, into dst_path when it is a folder
         ELSE IF copied \in made
           THEN Abort /\ dstDirs' = made /\ UNCHANGED dstFiles
         ELSE /\ Return
              /\ dstDirs' = made
              /\ dstFiles' = Write(dstFiles, copied, <<"raw", path>>)
  /\ UNCHANGED <<copyArgs, srcFiles, excluded_paths, gen_template, exceptCopy>>

\* line 294: the path is a folder
CopyDir ==
  /\ copyPc = "run"
  /\ Top.kind = "call"
  /\ ~HasWildcard(Top.path)
  /\ ~IsFile(Top.path)
  /\ IsDir(Top.path)
  /\ frames' = Popped \o <<Loop("iter", Top.path, Top.origin, Top.dst, IterDir(Top.path))>>
  /\ UNCHANGED <<copyArgs, srcFiles, excluded_paths, gen_template, dstFiles, dstDirs, copyPc, exceptCopy>>

\* lines 295-298: one turn of the loop over the entries of the folder, in the
\* order of the file system
CopyEntry ==
  /\ copyPc = "run"
  /\ Top.kind = "iter"
  /\ \E path_it \in Top.rest :
       LET remaining == Loop("iter", Top.path, Top.origin, Top.dst, Top.rest \ {path_it})
       IN  IF ~\E exc_path \in excluded_paths : Match(exc_path, PathStr(path_it))
             THEN frames' = Popped \o <<remaining, Call(path_it, Top.origin, Top.dst)>>
             ELSE frames' = Popped \o <<remaining>>
  /\ UNCHANGED <<copyArgs, srcFiles, excluded_paths, gen_template, dstFiles, dstDirs, copyPc, exceptCopy>>

\* the loop of the innermost call is over
CopyEnd ==
  /\ copyPc = "run"
  /\ Top.kind \in {"glob", "iter"}
  /\ Top.rest = {}
  /\ Return
  /\ UNCHANGED <<copyArgs, srcFiles, excluded_paths, gen_template, dstFiles, dstDirs, exceptCopy>>

(***************************************************************************)
(* Inputs of copy.                                                         *)
(***************************************************************************)
SourceFiles ==
  { SrcRoot \o <<<<"a", ".txt">>>>,
    SrcRoot \o <<<<"b", ".txt">>>>,
    SrcRoot \o <<<<"x">>>>,
    SrcRoot \o <<<<"x", ".template">>>>,
    SrcRoot \o <<<<"sub">>, <<"b", ".txt">>>>,
    SrcRoot \o <<<<"sub">>, <<"config", ".yml", ".template">>>> }

Exclusions ==
  { PathStr(SrcRoot \o <<<<"b", ".txt">>>>),
    PathStr(SrcRoot \o <<<<"*", ".txt">>>>),
    PathStr(SrcRoot \o <<<<"sub">>>>) }

\* the number of files in the source tree
MaxFiles == 3

\* copy(path, origin, local_dst, ...): a tree, a wildcard over a tree, a file
FirstCalls ==
  {Call(SrcRoot, SrcRoot, DstRoot),
   Call(SrcRoot \o <<<<"*">>>>, SrcRoot, DstRoot),
   Call(SrcRoot \o <<<<"*">>>>, SrcRoot \o <<<<"*">>>>, DstRoot)}
    \cup {Call(f, f, DstRoot) : f \in {g \in srcFiles : Len(g) = Len(SrcRoot) + 1}}

CopyIdle ==
  /\ copyArgs = Call(<<>>, <<>>, <<>>)
  /\ srcFiles = {}
  /\ excluded_paths = {}
  /\ gen_template = TRUE
  /\ dstFiles = {}
  /\ dstDirs = {}
  /\ frames = <<>>
  /\ copyPc = "off"

CopyInit ==
  /\ srcFiles \in {fs \in SUBSET SourceFiles : Cardinality(fs) <= MaxFiles}
  /\ excluded_paths \in SUBSET Exclusions
  /\ gen_template \in BOOLEAN
  /\ dstFiles = {}
  \* the destination is there, empty, or is not there yet
  /\ dstDirs \in {{}, {DstRoot}}
  /\ copyArgs \in FirstCalls
  /\ frames = <<copyArgs>>
  /\ copyPc = "run"

CopyNext ==
  \/ CopyWildcard
  \/ CopyMatch
  \/ CopyFile
  \/ CopyDir
  \/ CopyEntry
  \/ CopyEnd

(***************************************************************************)
(* The specifications, one for each subsystem.                             *)
(***************************************************************************)
InitCodec == CodecInit /\ SwapIdle /\ MergeIdle /\ DiffIdle /\ ReconcileIdle /\ CopyIdle

SpecCodec == InitCodec /\ [][CodecNext]_vars

InitSwap == SwapInit /\ CodecIdle /\ MergeIdle /\ DiffIdle /\ ReconcileIdle /\ CopyIdle

SpecSwap == InitSwap /\ [][SwapNext]_vars

InitMerge == MergeInit /\ CodecIdle /\ SwapIdle /\ DiffIdle /\ ReconcileIdle /\ CopyIdle

SpecMerge == InitMerge /\ [][MergeNext]_vars

InitDiff == DiffInit /\ CodecIdle /\ SwapIdle /\ MergeIdle /\ ReconcileIdle /\ CopyIdle

SpecDiff == InitDiff /\ [][DiffNext]_vars

InitReconcile == ReconcileInit /\ CodecIdle /\ SwapIdle /\ MergeIdle /\ DiffIdle /\ CopyIdle

SpecReconcile == InitReconcile /\ [][ReconcileNext]_vars

InitCopy ==
  CopyInit /\ CodecIdle /\ SwapIdle /\ MergeIdle /\ DiffIdle /\ ReconcileIdle

SpecCopy == InitCopy /\ [][CopyNext]_vars

(***************************************************************************)
(* The claims about the secret codec and the swaps.                        *)
(***************************************************************************)

\* C2: decrypt_with_key(pw, encrypt_with_key(pw, s)) returns exactly s, for
\* every s (empty and block-aligned ones included); the plaintext that was
\* encrypted is s followed by n bytes of value n, 1 <= n <= BlockSize.
RoundTrip ==
  /\ cPc = "decrypted" => cResult = Ok(cSource)
  /\ cPc \in {"encrypted", "decrypted"} =>
       LET padded == CBCDecrypt(SHA256(cPw), Take(cCipher, BlockSize), Drop(cCipher, BlockSize))
           n == Len(padded) - Len(cSource)
       IN  /\ n \in 1..BlockSize
           /\ Take(padded, Len(cSource)) = cSource
           /\ \A i \in (Len(cSource) + 1)..Len(padded) : padded[i] = n
           /\ Len(cCipher) = BlockSize + Len(cSource) + n

\* a block-aligned plaintext ending in bytes that look like padding came back
RoundTripWitness ==
  /\ cPc = "decrypted"
  /\ Len(cSource) = BlockSize
  /\ cSource[BlockSize] = 1
  /\ cResult.data = cSource
  /\ Len(cCipher) = 3 * BlockSize

\* C1: when a swap has returned normally exactly one file of the pair exists:
\* the ciphertext after encrypt_swap, the plaintext after decrypt_swap.
SwapLeavesOneFile ==
  (pc = "idle" /\ outcome = "ok") =>
     /\ op = "encrypt" => (encFile.exists /\ ~plainFile.exists)
     /\ op = "decrypt" => (plainFile.exists /\ ~encFile.exists)

\* an encrypt_swap that started with both files present has returned
SwapLeavesOneFileWitness ==
  /\ pc = "idle"
  /\ outcome = "ok"
  /\ op = "encrypt"
  /\ preFiles[1].exists
  /\ preFiles[2].exists
  /\ encFile.exists
  /\ ~plainFile.exists

\* the padding validation of decrypt_with_key fails on the ciphertext `source`
PaddingRejected(pw, source) ==
  LET data == CBCDecrypt(SHA256(pw), Take(source, BlockSize), Drop(source, BlockSize))
      n == data[Len(data)]
  IN  /\ Len(source) >= 2 * BlockSize
      /\ Len(source) % BlockSize = 0
      /\ ~(n \in 1..Len(data) /\ \A i \in (Len(data) - n + 1)..Len(data) : data[i] = n)

\* C9: a swap called without a passphrase fails with the password-required
\* error, a decrypt_swap whose padding validation fails fails with the
\* decryption error, and such a failing call leaves both files as they were.
FailedSwapLeavesPair ==
  (pc = "idle" /\ op # "none") =>
     /\ password = NoPassword => outcome = "PasswordException"
     /\ (op = "decrypt" /\ password # NoPassword /\ preFiles[2].exists
           /\ PaddingRejected(password, preFiles[2].data)) => outcome = "Exception"
     /\ outcome \in {"PasswordException", "Exception"} => <<plainFile, encFile>> = preFiles

\* a decrypt_swap with the wrong passphrase has failed on an existing pair
FailedSwapWitness ==
  /\ pc = "idle"
  /\ op = "decrypt"
  /\ outcome = "Exception"
  /\ password = "pw2"
  /\ preFiles[2] = File(encrypt_with_key("pw1", <<104, 105>>, Repeat(0, BlockSize)))
  /\ encFile = preFiles[2]
  /\ plainFile = preFiles[1]

\* C10: at every step of a swap, and after a crash at any step, the old form
\* is still as the call found it or the new form is completely on disk.
SwapKeepsCompleteCopy ==
  (pc \notin {"idle", "off"}) =>
     /\ op = "encrypt" => (plainFile = preFiles[1] \/ encFile = File(local))
     /\ op = "decrypt" => (encFile = preFiles[2] \/ plainFile = File(local))

(***************************************************************************)
(* The claims about merge.                                                 *)
(***************************************************************************)

\* C5: every tree that was passed to merge as source still has the value it
\* had when it was passed, whatever merges followed.
MergeNeverMutatesSource ==
  \A i \in 1..Len(mSnaps) : Deref(mSnaps[i].t, mHeap) = mSnaps[i].val

\* C6: with overwrite=true, merging b into a and then c into the result gives
\* the tree that merging c into b and the result into a gives.
MergeAssociative ==
  (mPc = "right" /\ mOverwrite) => mLeft = mRight

KindOf(val) == IF val[1] \in {"scalar", "none"} THEN "scalar" ELSE val[1]

RECURSIVE SameKinds(_)
\* at every key, the values the trees of `ts` hold there are of one kind
SameKinds(ts) ==
  \A key \in Keys :
    LET held == {t[2][key] : t \in {u \in ts : u[2][key] # Absent}}
    IN  /\ \A x, y \in held : KindOf(x) = KindOf(y)
        /\ \A x \in held : x[1] = "dict" => SameKinds({y \in held : y[1] = "dict"})

RECURSIVE HashableLists(_)
\* no list of the tree holds a mapping
HashableLists(val) ==
  IF val[1] = "list" THEN \A j \in 1..Len(val[2]) : Hashable(val[2][j])
  ELSE IF val[1] = "dict" THEN \A key \in Keys : HashableLists(val[2][key])
  ELSE TRUE

\* C6, amended: merge with overwrite=true is associative on trees a, b, c
\* that hold values of one kind at each key and whose lists hold scalars.
MergeAssociativeSameKinds ==
  (mPc = "right" /\ mOverwrite /\ SameKinds({mA, mB, mC})
     /\ HashableLists(mA) /\ HashableLists(mB) /\ HashableLists(mC)) => mLeft = mRight

\* three trees with lists at one key were merged both ways into the list of
\* all their elements, deduplicated
MergeAssociativeWitness ==
  /\ mPc = "right"
  /\ mOverwrite
  /\ mA[2]["a"] = List(<<Scalar(1)>>)
  /\ mB[2]["a"] = List(<<Scalar(1), Scalar(1)>>)
  /\ mC[2]["a"] = List(<<Scalar(2), Scalar(1)>>)
  /\ mLeft[2]["a"] = List(<<Scalar(1), Scalar(2)>>)
  /\ mRight = mLeft

(***************************************************************************)
(* The claim about diff.                                                   *)
(***************************************************************************)

IsScalar(val) == val[1] \in {"scalar", "none"}

\* C7: diff(previous, current) holds no key whose scalar value is the same in
\* previous and current, no key that only previous holds, and so is empty
\* when previous and current are the same tree.
DiffOnlyNewOrChanged ==
  (dPc = "done" /\ ~dResult.err) =>
     /\ \A key \in Keys :
          (IsScalar(dCurrent[2][key]) /\ dPrevious[2][key] = dCurrent[2][key])
             => dResult.res[2][key] = Absent
     /\ \A key \in Keys : dCurrent[2][key] = Absent => dResult.res[2][key] = Absent
     /\ dPrevious = dCurrent => dResult.res = EmptyDict


(***************************************************************************)
(* Schema reconciliation.                                                  *)
(***************************************************************************)
RECURSIVE Leaves(_, _, _, _)
RECURSIVE LeavesOfEntries(_, _, _, _, _)
RECURSIVE LeavesOfElements(_, _, _, _, _)

\* the leaves of a definition, each with its label and with the defaults and
\* the data of its level
Leaves(definition, defaults, data, path) ==
  IF definition[1] = "dict" THEN LeavesOfEntries(definition, defaults, data, path, 1)
  ELSE IF definition[1] = "list" THEN LeavesOfElements(definition[2], defaults, data, path, 1)
  ELSE <<[label |-> path \o <<definition[2]>>, key |-> definition[2],
          defaults |-> defaults, data |-> data]>>

LeavesOfEntries(definition, defaults, data, path, i) ==
  IF i > Len(NameSeq) THEN <<>>
  ELSE LET k == NameSeq[i]
           v == definition[2][k]
           here == IF v = Absent THEN <<>>
                   ELSE IF v = None
                     THEN <<[label |-> path \o <<k>>, key |-> k,
                             defaults |-> defaults, data |-> data]>>
                   ELSE Leaves(v, Get(defaults, k, List(<<>>)), Get(data, k, NoEntries),
                               path \o <<k, "/">>)
       IN  here \o LeavesOfEntries(definition, defaults, data, path, i + 1)

LeavesOfElements(elements, defaults, data, path, j) ==
  IF j > Len(elements) THEN <<>>
  ELSE Leaves(elements[j], defaults, data, path)
         \o LeavesOfElements(elements, defaults, data, path, j + 1)

\* where the value of a leaf has to come from
SourceOf(leaf) ==
  IF In(leaf.key, leaf.data) THEN "data"
  ELSE IF In(leaf.key, leaf.defaults) THEN "defaults"
  ELSE "input"

Count(seq, Test(_)) == Cardinality({i \in 1..Len(seq) : Test(seq[i])})

\* the prompts made up to and including the i-th resolution
PromptsUpTo(log, i) == Cardinality({j \in 1..i : log[j].src = "input"})

RECURSIVE LeafNames(_)

\* the names of the leaves of a definition, at any depth
LeafNames(definition) ==
  IF definition[1] = "dict" THEN
    UNION {IF definition[2][k] = Absent THEN {}
           ELSE IF definition[2][k] = None THEN {k}
           ELSE LeafNames(definition[2][k]) : k \in Names}
  ELSE IF definition[1] = "list" THEN
    UNION {LeafNames(definition[2][j]) : j \in 1..Len(definition[2])}
  ELSE {definition[2]}

ExampleDefinition == Mapping({<<"db", Mapping({<<"host", None>>, <<"port", None>>})>>})

ExampleData == Mapping({<<"db", Mapping({<<"host", Str("x")>>})>>})

IsExample ==
  /\ rDefinition = ExampleDefinition
  /\ rDefaults = NoEntries
  /\ rData = ExampleData
  /\ rAnswers[1] = "42"

NullConfigured(key, defaults, data) ==
  \/ In(key, data) /\ data[2][key] = None
  \/ ~In(key, data) /\ In(key, defaults) /\ defaults[2][key] = None

\* the keys an element of a list definition contributes to the level
KeysOf(element) ==
  IF element[1] = "dict" THEN {k \in Names : element[2][k] # Absent}
  ELSE {element[2]}

RECURSIVE Mirrors(_, _, _, _)
RECURSIVE MirrorsEntry(_, _, _, _, _)

\* values holds under key what the definition v of that key asks for
MirrorsEntry(key, v, values, defaults, data) ==
  /\ values[2][key] # Absent
  /\ IF v = None
       THEN values[2][key] = None => NullConfigured(key, defaults, data)
       ELSE Mirrors(v, values[2][key], Get(defaults, key, List(<<>>)),
                    Get(data, key, NoEntries))

\* values has the shape of the definition
Mirrors(definition, values, defaults, data) ==
  /\ values[1] = "dict"
  /\ IF definition[1] = "dict" THEN
       \A k \in Names :
         IF definition[2][k] = Absent THEN values[2][k] = Absent
         ELSE MirrorsEntry(k, definition[2][k], values, defaults, data)
     ELSE IF definition[1] = "list" THEN
       LET elements == definition[2]
           \* the last element that contributes the key k
           Last(k) == CHOOSE j \in 1..Len(elements) :
                        /\ k \in KeysOf(elements[j])
                        /\ \A h \in (j + 1)..Len(elements) : k \notin KeysOf(elements[h])
       IN  \A k \in Names :
             IF \A j \in 1..Len(elements) : k \notin KeysOf(elements[j])
               THEN values[2][k] = Absent
             ELSE IF elements[Last(k)][1] = "dict"
               THEN MirrorsEntry(k, elements[Last(k)][2][k], values, defaults, data)
             ELSE MirrorsEntry(k, None, values, defaults, data)
     ELSE \A k \in Names :
            IF k = definition[2] THEN MirrorsEntry(k, None, values, defaults, data)
            ELSE values[2][k] = Absent

Excluded(f) ==
  \E n \in (Len(SrcRoot) + 1)..Len(f) :
    \E exc_path \in excluded_paths : Match(exc_path, PathStr(Take(f, n)))

\* where the artifact of a source file belongs, and what it holds
Artifact(f) ==
  LET at == DstRoot \o RelativeTo(f, SrcRoot)
  IN  IF IsTemplate(NameOf(f))
        THEN <<Parent(at) \o <<Take(NameOf(at), Len(NameOf(at)) - 1)>>, <<"rendered", f>>>>
        ELSE <<at, <<"raw", f>>>>

CopiedTree == copyPc = "done" /\ gen_template /\ copyArgs = Call(SrcRoot, SrcRoot, DstRoot)

\* C3: after the copy of a source tree into an empty destination, every file
\* of the tree that is not excluded has exactly one artifact, a template
\* rendered under its name without the suffix and any other file copied
\* under its own name, no excluded file has an artifact, and the destination
\* holds nothing else.
CopyOneToOne ==
  CopiedTree =>
    /\ \A f \in srcFiles :
         IF Excluded(f) THEN \A a \in dstFiles : a[2][2] # f
         ELSE /\ Artifact(f) \in dstFiles
              /\ Cardinality({a \in dstFiles : a[2][2] = f}) = 1
    /\ Cardinality(dstFiles) = Cardinality({f \in srcFiles : ~Excluded(f)})

====
